---- MODULE Spec2Model ----
(***************************************************************************)
(* Model of the idle-frame removal pipeline of src/main.py and of the      *)
(* overwrite step of src/mpdecimate.py.                                    *)
(*                                                                         *)
(* File names are sequences of character codes, so that formatting         *)
(* (f"frame_renamed_{i}.jpg"), splitting on digit runs, int() conversion   *)
(* and the natural sort key are computed the way the code computes them.   *)
(***************************************************************************)
EXTENDS Integers, Sequences, FiniteSets, TLC

(* ------------------------------ bounds --------------------------------- *)
\* largest index of a frame_<n>.jpg file found in a directory handed to rename_images
MaxIdx == 10
\* largest index of a frame_renamed_<n>.jpg file left over from an earlier run
MaxRen == 2
\* most files in a directory handed to rename_images
MaxFiles == 3
\* most segments the segmenter leaves in slices/
MaxSegs == 2
\* most timestamps in one segment's metadata file
MaxTs == 3
\* most timestamps over a whole run (caps total_frames)
MaxFrames == 5

(* ------------------------- program constants --------------------------- *)
MinQuality == 2
MaxQuality == 31
MinBatch == 1
MaxBatch == 250
MinFramerate == 1
MaxFramerate == 600

\* the values a run is configured with: both edges of each range and beyond
BatchSizes == {-1, 0, 1, 2, 250, 251}
Qualities == {1, 2, 32}
Framerates == {0, 600, 601}

(* --------------------------- strings as codes -------------------------- *)
\* "frame_"
S_frame == <<102, 114, 97, 109, 101, 95>>
\* "frame_renamed_"
S_frame_renamed == <<102, 114, 97, 109, 101, 95, 114, 101, 110, 97, 109, 101, 100, 95>>
\* ".jpg"
S_jpg == <<46, 106, 112, 103>>
\* ".png"
S_png == <<46, 112, 110, 103>>

IsDigitChar(c) == c \in 48..57

\* Python's decimal formatting of a non-negative int inside an f-string
RECURSIVE str(_)
str(n) == IF n < 10 THEN <<48 + n>> ELSE str(n \div 10) \o <<48 + (n % 10)>>

\* str.isdigit(): non-empty and all characters are digits
isdigit(text) == Len(text) > 0 /\ \A k \in 1..Len(text) : IsDigitChar(text[k])

\* int(text) for a string of decimal digits
RECURSIVE int(_)
int(text) ==
  IF Len(text) = 0 THEN 0
  ELSE int(SubSeq(text, 1, Len(text) - 1)) * 10 + (text[Len(text)] - 48)

\* str.lower() on ASCII
lower(text) ==
  [k \in 1..Len(text) |-> IF text[k] \in 65..90 THEN text[k] + 32 ELSE text[k]]

\* str.endswith(suffix)
endswith(s, suffix) ==
  /\ Len(s) >= Len(suffix)
  /\ SubSeq(s, Len(s) - Len(suffix) + 1, Len(s)) = suffix

\* last position of the maximal digit run that starts at position k
RECURSIVE DigitRunEnd(_, _)
DigitRunEnd(s, k) ==
  IF k + 1 <= Len(s) /\ IsDigitChar(s[k + 1]) THEN DigitRunEnd(s, k + 1) ELSE k

\* re.split('([0-9]+)', s): text, digits, text, digits, ..., text
RECURSIVE SplitFrom(_, _, _, _)
SplitFrom(s, k, cur, acc) ==
  IF k > Len(s) THEN Append(acc, cur)
  ELSE IF IsDigitChar(s[k])
       THEN LET e == DigitRunEnd(s, k)
            IN  SplitFrom(s, e + 1, <<>>, acc \o <<cur, SubSeq(s, k, e)>>)
       ELSE SplitFrom(s, k + 1, Append(cur, s[k]), acc)

re_split(s) == SplitFrom(s, 1, <<>>, <<>>)

\* one element of a sort key: an int or a lower-cased text
IntItem(n) == [isint |-> TRUE, n |-> n, text |-> <<>>]
TextItem(t) == [isint |-> FALSE, n |-> 0, text |-> t]

\* a buggy key: the digit runs are left as text, so the order is lexicographic
natural_sort_key_noint(s) ==
  LET parts == re_split(s)
  IN  [k \in 1..Len(parts) |-> TextItem(lower(parts[k]))]

\* natural_sort_key: [int(text) if text.isdigit() else text.lower() for text in re.split(_nsre, s)]
natural_sort_key(s) ==
  LET parts == re_split(s)
  IN  [k \in 1..Len(parts) |->
         IF isdigit(parts[k]) THEN IntItem(int(parts[k]))
         ELSE TextItem(lower(parts[k]))]

SetMin(S) == CHOOSE x \in S : \A y \in S : x <= y

\* Python's < on str (code point order, a proper prefix is smaller)
TextLess(a, b) ==
  LET m == IF Len(a) < Len(b) THEN Len(a) ELSE Len(b)
      d == {k \in 1..m : a[k] # b[k]}
  IN  IF d = {} THEN Len(a) < Len(b)
      ELSE a[SetMin(d)] < b[SetMin(d)]

\* Python's < on two key elements. An int against a str raises TypeError in
\* Python; the file names considered here all split into text, digits, text,
\* so that case does not arise.
ItemLess(x, y) ==
  IF x.isint /\ y.isint THEN x.n < y.n
  ELSE IF ~x.isint /\ ~y.isint THEN TextLess(x.text, y.text)
  ELSE FALSE

\* Python's < on lists: the first differing element decides, else the length
KeyLess(a, b) ==
  LET m == IF Len(a) < Len(b) THEN Len(a) ELSE Len(b)
      d == {k \in 1..m : a[k] # b[k]}
  IN  IF d = {} THEN Len(a) < Len(b)
      ELSE ItemLess(a[SetMin(d)], b[SetMin(d)])

\* sorted(os.listdir(directory), key=natural_sort_key). The names considered
\* have pairwise different keys, so the result does not depend on the order
\* in which listdir returns them.
RECURSIVE sorted(_)
sorted(S) ==
  IF S = {} THEN <<>>
  ELSE LET m == CHOOSE x \in S :
                  \A y \in S \ {x} : KeyLess(natural_sort_key(x), natural_sort_key(y))
       IN  <<m>> \o sorted(S \ {m})

(* ------------------------------ file names ----------------------------- *)
\* images/frame_%d.jpg as written by the extraction command
FrameName(n) == S_frame \o str(n) \o S_jpg
\* f"frame_renamed_{i}.jpg"
RenamedName(n) == S_frame_renamed \o str(n) \o S_jpg
\* a stale image of another format (not touched by rename_images)
PngName(n) == S_frame \o str(n) \o S_png

(* -------------------------------- state -------------------------------- *)
VARIABLES
  pc,            \* position of the run
  exc,           \* exception in flight ("none" when there is none)
  dirs,          \* working directories that exist
  batch_size,    \* args.batch_size
  quality,       \* args.quality
  framerate,     \* args.framerate
  out,           \* the destination: its directory, the file there, the file there at start
  nsegs,         \* number of entries of file_info_list
  seg,           \* index of the entry of file_info_list being processed
  timestamps,    \* process_timestamps: timestamps of the current segment
  bi,            \* process_timestamps: the batch loop's i
  total_frames,  \* process_timestamps: the global frame counter
  commands,      \* history: the external invocations made, in order
  metas,         \* history: the timestamps loaded for each segment so far
  badmeta,       \* history: the segment whose metadata could not be loaded (0: none)
  failed,        \* history: some invocation has ended with a non-zero exit status
  ranAfterFailure, \* history: an invocation was made after one had failed
  images,        \* file names in images/
  files,         \* rename_images: the sorted listing taken at line 21
  fidx,          \* rename_images: position of the for loop in files
  i,             \* rename_images: the index counter
  dir0,          \* history: images/ as rename_images found it
  origin,        \* history: the name each file of images/ had in dir0
  nrenames,      \* history: number of os.rename calls made by this call
  runs           \* history: number of calls of rename_images

cfgvars == <<batch_size, quality, framerate>>
procvars == <<nsegs, seg, timestamps, bi, total_frames, metas, badmeta>>
renvars == <<files, fidx, i, dir0, origin, nrenames, runs>>
logvars == <<commands, failed, ranAfterFailure>>
vars == <<pc, exc, dirs, cfgvars, out, procvars, logvars, images, renvars>>

WorkDirs == {"images/", "slices/", "metadatas/"}

Min(a, b) == IF a < b THEN a ELSE b

(* ------------------------------ run_command ---------------------------- *)
\* run_command (line 59-65): the command is run to completion; its exit status
\* rc is not looked at, so the caller continues whatever it is.
run_command(cmd, rc) ==
  /\ commands' = Append(commands, cmd)
  /\ failed' = (failed \/ rc # 0)
  /\ ranAfterFailure' = (ranAfterFailure \/ failed)

ExitCodes == {0, 1}

(* ----------------------------- rename_images --------------------------- *)
\* os.path.exists evaluated without the directory part: never true
target_exists_nodir(dir, n) == FALSE

\* os.path.exists(os.path.join(directory, f"frame_renamed_{i}.jpg"))
target_exists(dir, n) == RenamedName(n) \in dir

\* os.rename(src, dst) inside one directory (an existing dst is replaced)
os_rename(dir, src, dst) == (dir \ {src}) \cup {dst}

\* the body of the for loop, line 24 to 30: i += 1 is inside the inner if
RenameBody(file, dir, n) ==
  IF endswith(file, S_jpg)
  THEN IF ~target_exists(dir, n)
       THEN [dir |-> os_rename(dir, file, RenamedName(n)), i |-> n + 1, renamed |-> TRUE]
       ELSE [dir |-> dir, i |-> n, renamed |-> FALSE]
  ELSE [dir |-> dir, i |-> n, renamed |-> FALSE]

\* line 21-22: the listing is taken and sorted once, i = 0
RenameEnter(dir) ==
  /\ files' = sorted(dir)
  /\ fidx' = 1
  /\ i' = 0
  /\ dir0' = dir
  /\ origin' = [f \in dir |-> f]
  /\ nrenames' = 0
  /\ runs' = runs + 1

\* one iteration of the for loop of rename_images
RenameStep ==
  /\ pc = "rename"
  /\ fidx <= Len(files)
  /\ LET r == RenameBody(files[fidx], images, i)
     IN  /\ images' = r.dir
         /\ i' = r.i
         /\ nrenames' = IF r.renamed THEN nrenames + 1 ELSE nrenames
         /\ origin' = [f \in r.dir |->
                         IF r.renamed /\ f = RenamedName(i) THEN origin[files[fidx]]
                         ELSE origin[f]]
  /\ fidx' = fidx + 1
  /\ UNCHANGED <<pc, exc, dirs, cfgvars, out, procvars, logvars,
                 files, dir0, runs>>

\* the for loop is exhausted: rename_images returns (to line 168 of create_video)
RenameReturn ==
  /\ pc = "rename"
  /\ fidx > Len(files)
  /\ pc' = "assemble"
  /\ UNCHANGED <<exc, dirs, cfgvars, out, procvars, logvars, images, renvars>>

\* rename_images is called once more on the directory it has just left
RenameAgain ==
  /\ pc = "assemble"
  /\ runs < 2
  /\ pc' = "rename"
  /\ RenameEnter(images)
  /\ UNCHANGED <<exc, dirs, cfgvars, out, procvars, logvars, images>>

\* the names a directory handed to rename_images may hold
NameUniverse ==
  {FrameName(n) : n \in 0..MaxIdx} \cup {RenamedName(n) : n \in 0..MaxRen}
    \cup {PngName(0)}

\* rename_images called on a directory of at most MaxFiles files
InitRename ==
  /\ pc = "rename"
  /\ exc = "none"
  /\ dirs = WorkDirs
  /\ batch_size = 200 /\ quality = 16 /\ framerate = 30
  /\ out = [dir |-> "exists", file |-> "absent", file0 |-> "absent"]
  /\ nsegs = 0 /\ seg = 0 /\ timestamps = <<>> /\ bi = 0 /\ total_frames = 0
  /\ metas = <<>> /\ badmeta = 0
  /\ commands = <<>> /\ failed = FALSE /\ ranAfterFailure = FALSE
  /\ images \in {d \in SUBSET NameUniverse : Cardinality(d) <= MaxFiles}
  /\ files = sorted(images)
  /\ fidx = 1
  /\ i = 0
  /\ dir0 = images
  /\ origin = [f \in images |-> f]
  /\ nrenames = 0
  /\ runs = 1

NextRename == RenameStep \/ RenameReturn \/ RenameAgain

SpecRename == InitRename /\ [][NextRename]_vars

(* --------------------- setup_and_cleanup_directories ------------------- *)
\* wrapper, line 38-43: every working directory is created if it is missing
Setup ==
  /\ pc = "setup"
  /\ dirs' = WorkDirs
  /\ pc' = "slice"
  /\ UNCHANGED <<exc, cfgvars, out, procvars, logvars, images, renvars>>

\* a wrapper without try/finally: the directories are removed on a normal return only
Cleanup_nofinally ==
  /\ pc = "cleanup"
  /\ dirs' = IF exc = "none" THEN {} ELSE dirs
  /\ pc' = IF exc = "none" THEN "returned" ELSE "raised"
  /\ UNCHANGED <<exc, cfgvars, out, procvars, logvars, images, renvars>>

\* wrapper, line 48-55: the finally block removes every working directory (with
\* its content), then the result is returned or the exception continues upwards
Cleanup ==
  /\ pc = "cleanup"
  /\ dirs' = {}
  /\ images' = {}
  /\ pc' = IF exc = "none" THEN "returned" ELSE "raised"
  /\ UNCHANGED <<exc, cfgvars, out, procvars, logvars, renvars>>

\* an exception leaves main: control goes to the wrapper's finally block
Raise(e) ==
  /\ exc' = e
  /\ pc' = "cleanup"

(* ------------------------ slice_video, extract_metadata ---------------- *)
\* main line 191-194 and slice_video: one segmentation command; what it leaves in
\* slices/ is up to the engine
SliceVideo ==
  /\ pc = "slice"
  /\ \E rc \in ExitCodes : run_command([kind |-> "slice", seg |-> 0, start |-> 0, batch |-> <<>>], rc)
  /\ \E n \in 0..MaxSegs : nsegs' = n
  /\ seg' = 1
  /\ pc' = "metadata"
  /\ UNCHANGED <<exc, dirs, cfgvars, out, timestamps, bi, total_frames, metas, badmeta,
                 images, renvars>>

\* extract_metadata, line 81-90: one analysis command per segment file
ExtractMetadata ==
  /\ pc = "metadata"
  /\ seg <= nsegs
  /\ \E rc \in ExitCodes : run_command([kind |-> "probe", seg |-> seg, start |-> 0, batch |-> <<>>], rc)
  /\ seg' = seg + 1
  /\ UNCHANGED <<pc, exc, dirs, cfgvars, out, nsegs, timestamps, bi, total_frames, metas,
                 badmeta, images, renvars>>

\* extract_metadata returns file_info_list (line 91); main calls process_timestamps
ExtractMetadataReturn ==
  /\ pc = "metadata"
  /\ seg > nsegs
  /\ pc' = "process"
  /\ UNCHANGED <<exc, dirs, cfgvars, out, procvars, logvars, images, renvars>>

(* --------------------------- process_timestamps ------------------------ *)
\* line 107-113: "none" or the exception raised
validate_process(q, b) ==
  IF ~(MinQuality <= q /\ q <= MaxQuality) THEN "ValueError"
  ELSE IF ~(MinBatch <= b /\ b <= MaxBatch) THEN "ValueError"
  ELSE "none"

\* line 107-116: the ranges are checked, then total_frames = 0
ProcessEnter ==
  /\ pc = "process"
  /\ IF validate_process(quality, batch_size) # "none"
     THEN /\ Raise(validate_process(quality, batch_size))
          /\ UNCHANGED <<seg, total_frames>>
     ELSE /\ total_frames' = 0
          /\ seg' = 1
          /\ pc' = "load"
          /\ exc' = exc
  /\ UNCHANGED <<dirs, cfgvars, out, nsegs, timestamps, bi, metas, badmeta, logvars, images, renvars>>

\* what a metadata file may turn out to be when it is opened: absent, not
\* JSON, or JSON holding the frames' pts_time values
MetaFile(kind, frames) == [kind |-> kind, frames |-> frames]

\* a loader that swallows the error and goes on with no frames
load_json_data_swallow(meta) == [exc |-> "none", frames |-> meta.frames]

\* load_json_data, line 136-143: open and json.load; any exception is logged and
\* raised again
load_json_data(meta) ==
  IF meta.kind = "missing" THEN [exc |-> "FileNotFoundError", frames |-> <<>>]
  ELSE IF meta.kind = "unparsable" THEN [exc |-> "JSONDecodeError", frames |-> <<>>]
  ELSE [exc |-> "none", frames |-> meta.frames]

\* the pts_time values of a segment with n selected frames, in ascending order
PtsTimes(n) == [k \in 1..n |-> k]

\* line 118-120: the next entry of file_info_list; its metadata file is loaded
LoadMetadata ==
  /\ pc = "load"
  /\ seg <= nsegs
  /\ \E meta \in {MetaFile("missing", <<>>), MetaFile("unparsable", <<>>)} \cup
                 {MetaFile("ok", PtsTimes(n)) :
                    n \in 0..Min(MaxTs, MaxFrames - total_frames)} :
       LET data == load_json_data(meta)
       IN  /\ badmeta' = IF meta.kind # "ok" /\ badmeta = 0 THEN seg ELSE badmeta
           /\ IF data.exc # "none"
              THEN /\ Raise(data.exc)
                   /\ UNCHANGED <<timestamps, bi, metas>>
              ELSE /\ timestamps' = data.frames
                   /\ metas' = Append(metas, data.frames)
                   /\ bi' = 0
                   /\ pc' = "batch"
                   /\ exc' = exc
  /\ UNCHANGED <<dirs, cfgvars, out, nsegs, seg, total_frames, logvars,
                 images, renvars>>

\* a slice that is one element short
batch_slice_short(ts, k, b) == SubSeq(ts, k + 1, Min(k + b - 1, Len(ts)))

\* line 122: timestamps[i:i+batch_size]
batch_slice(ts, k, b) == SubSeq(ts, k + 1, Min(k + b, Len(ts)))

\* the counter advanced by the nominal batch size
advance_nominal(total, batch) == total + batch_size

\* line 127: total_frames += len(batch_timestamps)
advance(total, batch) == total + Len(batch)

\* line 121-131: one batch: the command is built with -start_number total_frames,
\* the counter is advanced, the command is run; the engine writes frame_<n>.jpg
\* for n from the start number on, one per frame it finds, at most one per
\* timestamp asked for
ExtractBatch ==
  /\ pc = "batch"
  /\ bi < Len(timestamps)
  /\ LET batch_timestamps == batch_slice(timestamps, bi, batch_size)
     IN  /\ \E rc \in ExitCodes :
               run_command([kind |-> "extract", seg |-> seg, start |-> total_frames,
                            batch |-> batch_timestamps], rc)
         /\ total_frames' = advance(total_frames, batch_timestamps)
         /\ \E produced \in 0..Len(batch_timestamps) :
               images' = images \cup
                 {FrameName(n) : n \in total_frames..(total_frames + produced - 1)}
  /\ bi' = bi + batch_size
  /\ UNCHANGED <<pc, exc, dirs, cfgvars, out, nsegs, seg, timestamps, metas, badmeta,
                 renvars>>

\* the range of line 121 is exhausted: on to the next entry of file_info_list
NextSegment ==
  /\ pc = "batch"
  /\ bi >= Len(timestamps)
  /\ seg' = seg + 1
  /\ pc' = "load"
  /\ UNCHANGED <<exc, dirs, cfgvars, out, nsegs, timestamps, bi, total_frames, metas,
                 badmeta, logvars, images, renvars>>

\* line 118 is exhausted: process_timestamps returns; main calls create_video
ProcessReturn ==
  /\ pc = "load"
  /\ seg > nsegs
  /\ pc' = "create"
  /\ UNCHANGED <<exc, dirs, cfgvars, out, procvars, logvars, images, renvars>>

(* ------------------------------ create_video --------------------------- *)
\* the destination directory is made, a file already there is left in place
check_output_validity_keep(o) ==
  IF o.dir = "empty" THEN [exc |-> "FileNotFoundError", out |-> o]
  ELSE [exc |-> "none", out |-> [o EXCEPT !.dir = "exists"]]

\* check_output_validity, line 146-159. dirname(output_path) is "empty" for a
\* bare file name: os.path.exists('') is false and os.makedirs('') raises
\* FileNotFoundError. Otherwise the directory is created if missing and a file
\* already at output_path is removed.
check_output_validity(o) ==
  IF o.dir = "empty" THEN [exc |-> "FileNotFoundError", out |-> o]
  ELSE [exc |-> "none", out |-> [o EXCEPT !.dir = "exists", !.file = "absent"]]

\* line 163-167: the frame rate is checked, the destination is prepared,
\* rename_images is entered
CreateVideo ==
  /\ pc = "create"
  /\ IF ~(MinFramerate <= framerate /\ framerate <= MaxFramerate)
     THEN /\ Raise("ValueError")
          /\ UNCHANGED <<out, renvars>>
     ELSE LET r == check_output_validity(out)
          IN  IF r.exc # "none"
              THEN /\ Raise(r.exc)
                   /\ UNCHANGED <<out, renvars>>
              ELSE /\ out' = r.out
                   /\ RenameEnter(images)
                   /\ pc' = "rename"
                   /\ exc' = exc
  /\ UNCHANGED <<dirs, cfgvars, procvars, logvars, images>>

\* line 169-171: the encoding command; the engine leaves a complete file, a
\* partial file or nothing at the destination; create_video and main return
AssembleVideo ==
  /\ pc = "assemble"
  /\ \E rc \in ExitCodes :
       /\ run_command([kind |-> "assemble", seg |-> 0, start |-> 0, batch |-> <<>>], rc)
       /\ \E f \in (IF rc = 0 THEN {"new"} ELSE {"absent", "partial"}) :
            out' = [out EXCEPT !.file = f]
  /\ pc' = "cleanup"
  /\ UNCHANGED <<exc, dirs, cfgvars, procvars, images, renvars>>

(* ------------------------------ mpdecimate.py -------------------------- *)
\* mpdecimate.py main, line 46-48: a file already at output_file is removed
MpMain ==
  /\ pc = "mp_main"
  /\ out' = [out EXCEPT !.file = "absent"]
  /\ pc' = "mp_process"
  /\ UNCHANGED <<exc, dirs, cfgvars, procvars, logvars, images, renvars>>

\* mpdecimate.py process_video, line 19-34: one filter command; its exit status
\* is not looked at. The engine cannot write into a directory that is missing.
MpProcessVideo ==
  /\ pc = "mp_process"
  /\ \E rc \in ExitCodes :
       /\ commands' = Append(commands, [kind |-> "decimate", seg |-> 0, start |-> 0, batch |-> <<>>])
       /\ failed' = (failed \/ rc # 0)
       /\ ranAfterFailure' = (ranAfterFailure \/ failed)
       /\ \E f \in (IF rc = 0 /\ out.dir # "missing" THEN {"new"}
                    ELSE IF out.dir # "missing" THEN {"absent", "partial"}
                    ELSE {"absent"}) :
            out' = [out EXCEPT !.file = f]
  /\ pc' = "mp_done"
  /\ UNCHANGED <<exc, dirs, cfgvars, procvars, images, renvars>>

(* --------------------------------- main -------------------------------- *)
\* the destination before the run: no directory part, a directory that is
\* missing, or a directory that exists with or without an earlier output in it
Destinations ==
  {[dir |-> "empty", file |-> f, file0 |-> f] : f \in {"absent", "old"}}
    \cup {[dir |-> "missing", file |-> "absent", file0 |-> "absent"]}
    \cup {[dir |-> "exists", file |-> f, file0 |-> f] : f \in {"absent", "old"}}

\* a run of main.py: any configuration, any of the working directories left
\* over from an earlier run, any destination
InitMain ==
  /\ pc = "setup"
  /\ dirs \in SUBSET WorkDirs
  /\ batch_size \in BatchSizes
  /\ quality \in Qualities
  /\ framerate \in Framerates
  /\ out \in Destinations

\* a run of mpdecimate.py: it has none of main.py's options or directories
InitMp ==
  /\ pc = "mp_main"
  /\ dirs = {}
  /\ batch_size = 200 /\ quality = 16 /\ framerate = 30
  /\ out \in Destinations

Init ==
  /\ InitMain \/ InitMp
  /\ exc = "none"
  /\ nsegs = 0 /\ seg = 0 /\ timestamps = <<>> /\ bi = 0 /\ total_frames = 0
  /\ metas = <<>> /\ badmeta = 0
  /\ commands = <<>> /\ failed = FALSE /\ ranAfterFailure = FALSE
  /\ images = {}
  /\ files = <<>> /\ fidx = 1 /\ i = 0 /\ dir0 = {} /\ origin = <<>>
  /\ nrenames = 0 /\ runs = 0

Next ==
  \/ Setup
  \/ SliceVideo
  \/ ExtractMetadata
  \/ ExtractMetadataReturn
  \/ ProcessEnter
  \/ LoadMetadata
  \/ ExtractBatch
  \/ NextSegment
  \/ ProcessReturn
  \/ CreateVideo
  \/ RenameStep
  \/ RenameReturn
  \/ AssembleVideo
  \/ Cleanup
  \/ MpMain
  \/ MpProcessVideo

Spec == Init /\ [][Next]_vars

(* ========================== properties ================================= *)
\* the frame-extraction invocations made so far, in order
Extracts == SelectSeq(commands, LAMBDA c : c.kind = "extract")

\* the batches extracted for segment k, in order
BatchesOf(k) == SelectSeq(commands, LAMBDA c : c.kind = "extract" /\ c.seg = k)

RECURSIVE ConcatBatches(_)
ConcatBatches(cs) ==
  IF Len(cs) = 0 THEN <<>> ELSE cs[1].batch \o ConcatBatches(Tail(cs))

CeilDiv(n, b) == (n + b - 1) \div b

\* C1: the first batch gets start index 0, each later batch gets the start
\* index of the batch before it plus the number of timestamps that batch asked
\* for, across segments and whatever the engine wrote; the counter is the
\* start index the next batch will get.
C1_StartIndexChain ==
  LET ex == Extracts
  IN  /\ Len(ex) > 0 => ex[1].start = 0
      /\ \A k \in 1..(Len(ex) - 1) : ex[k + 1].start = ex[k].start + Len(ex[k].batch)
      /\ pc \in {"load", "batch", "create"} =>
           total_frames = IF Len(ex) = 0 THEN 0
                          ELSE ex[Len(ex)].start + Len(ex[Len(ex)].batch)

\* C1 witness: batch size 2, segments of 3 and 2 timestamps: start indices 0, 2
\* and (in the second segment) 3, although the engine wrote no image at all.
C1_Witness ==
  /\ pc = "create"
  /\ batch_size = 2
  /\ metas = <<PtsTimes(3), PtsTimes(2)>>
  /\ Len(Extracts) = 3
  /\ Extracts[2].start = 2
  /\ Extracts[3].start = 3 /\ Extracts[3].seg = 2
  /\ images = {}

\* C2: for every segment loaded, the batches made from it are non-empty, hold
\* at most batch_size timestamps, concatenate to the part of the segment's
\* timestamps processed so far (all of it once its loop has ended), and are
\* ceil(N / batch_size) in number.
C2_BatchPartition ==
  \A k \in 1..Len(metas) :
    LET N == Len(metas[k])
        processed == IF pc = "batch" /\ k = seg
                     THEN (IF bi < N THEN bi ELSE N) ELSE N
        bs == BatchesOf(k)
    IN  /\ ConcatBatches(bs) = SubSeq(metas[k], 1, processed)
        /\ Len(bs) = CeilDiv(processed, batch_size)
        /\ \A j \in 1..Len(bs) : 1 <= Len(bs[j].batch) /\ Len(bs[j].batch) <= batch_size

\* C2 witness: segments of 3 and 0 timestamps with batch size 2: batches
\* <<1,2>> and <<3>> for the first, none for the empty second segment.
C2_Witness ==
  /\ pc = "create"
  /\ batch_size = 2
  /\ metas = <<PtsTimes(3), PtsTimes(0)>>
  /\ Len(BatchesOf(1)) = 2
  /\ BatchesOf(1)[1].batch = <<1, 2>>
  /\ BatchesOf(1)[2].batch = <<3>>
  /\ Len(BatchesOf(2)) = 0

\* C3: when an out-of-range batch size, quality or frame rate is rejected, no
\* external invocation has been made.
C3_RejectBeforeInvocation == exc = "ValueError" => commands = <<>>

\* C4: once an external invocation has ended with a non-zero exit status, no
\* further invocation is made and the run does not go on to rename_images and
\* the encoding command.
C4_AbortOnNonZeroExit ==
  failed =>
    /\ ~ranAfterFailure
    /\ commands[Len(commands)].kind # "assemble" => pc \notin {"create", "rename", "assemble"}

\* a directory of extracted frames only
IsFrame(f) == \E n \in 0..MaxIdx : f = FrameName(n)
FrameIndex(f) == CHOOSE n \in 0..MaxIdx : f = FrameName(n)

\* C5: from a directory of frame_<n>.jpg files only, rename_images ends with
\* as many files, named frame_renamed_0 .. frame_renamed_(count-1), and the
\* file whose original index is the k-th smallest (as an integer) has index k.
C5_RenameContiguous ==
  (pc = "assemble" /\ runs = 1 /\ \A f \in dir0 : IsFrame(f)) =>
    /\ Cardinality(images) = Cardinality(dir0)
    /\ images = {RenamedName(k) : k \in 0..(Cardinality(dir0) - 1)}
    /\ {origin[f] : f \in images} = dir0
    /\ \A f \in images :
         f = RenamedName(Cardinality({g \in dir0 : FrameIndex(g) < FrameIndex(origin[f])}))

\* C5 witness: frames 2, 9 and 10 have become 0, 1 and 2.
C5_Witness ==
  /\ pc = "assemble"
  /\ runs = 1
  /\ dir0 = {FrameName(10), FrameName(2), FrameName(9)}
  /\ origin[RenamedName(0)] = FrameName(2)
  /\ origin[RenamedName(1)] = FrameName(9)
  /\ origin[RenamedName(2)] = FrameName(10)

\* C6: the working directories all exist from the moment the driver starts
\* until the wrapper's cleanup, and none exists once the wrapper is left, by a
\* return or by an exception; an exception raised inside is still in flight.
C6_DirectoriesScoped ==
  /\ pc \in {"slice", "metadata", "process", "load", "batch", "create", "rename",
             "assemble", "cleanup"} => dirs = WorkDirs
  /\ pc \in {"returned", "raised"} => dirs = {}
  /\ pc = "returned" => exc = "none"
  /\ pc = "raised" => exc # "none"

\* C6 witness: a data error has left the wrapper and the directories are gone.
C6_Witness == pc = "raised" /\ exc = "JSONDecodeError" /\ dirs = {} /\ Len(Extracts) > 0

\* C7: once a segment's metadata file was found missing or unparsable, the
\* error is in flight, the run is on its way out, no batch of that segment or
\* a later one has been extracted and no encoding command has been issued.
C7_BadMetadataFatal ==
  badmeta # 0 =>
    /\ exc \in {"FileNotFoundError", "JSONDecodeError"}
    /\ pc \in {"cleanup", "raised"}
    /\ seg = badmeta
    /\ \A k \in 1..Len(commands) :
         /\ commands[k].kind # "assemble"
         /\ commands[k].kind = "extract" => commands[k].seg < badmeta

\* C7 witness: the second segment's metadata was bad after the first segment
\* was extracted.
C7_Witness == badmeta = 2 /\ pc = "raised" /\ Len(BatchesOf(1)) > 0

\* the output of rename_images: frame_renamed_0 .. frame_renamed_(n-1), n >= 1
OwnOutput(d) == d # {} /\ d = {RenamedName(k) : k \in 0..(Cardinality(d) - 1)}

\* C8: rename_images run on a directory that is its own output renames
\* nothing and leaves the directory as it was.
C8_SecondRunNoRename ==
  OwnOutput(dir0) => (nrenames = 0 /\ images = dir0)

\* C8 witness: a second call, on the three files the first call produced, has
\* returned.
C8_Witness ==
  /\ runs = 2 /\ pc = "assemble"
  /\ dir0 = {RenamedName(0), RenamedName(1), RenamedName(2)}

\* C9: from the entry of rename_images to the encoding invocation the
\* destination directory exists and no file is at the destination path; when
\* mpdecimate.py issues its command no file is at the destination path either.
C9_OldOutputRemoved ==
  /\ pc \in {"rename", "assemble"} => (out.dir = "exists" /\ out.file = "absent")
  /\ pc = "mp_process" => out.file = "absent"

\* C9 witness: the encoding command is about to be issued for a destination
\* that held an earlier output.
C9_Witness == pc = "assemble" /\ runs = 1 /\ out.file0 = "old" /\ commands # <<>>

\* C10: in an iteration of rename_images whose target name exists, the
\* directory is left as it is and i advances by one.
C10_CounterAdvancesOnSkip ==
  [][(/\ pc = "rename"
      /\ fidx <= Len(files)
      /\ endswith(files[fidx], S_jpg)
      /\ target_exists(images, i))
     => (images' = images /\ i' = i + 1)]_vars

====
